---- MODULE Spec2Model ----
(***************************************************************************)
(* Semsi: tag-list parser (semsi/data.py), TF-IDF embedding model          *)
(* (semsi/embedding.py) and cosine similarity matrix (semsi/similarity.py).*)
(*                                                                         *)
(* Text is modelled as sequences of characters; a character is a           *)
(* one-character string, and the characters TLA+ strings cannot hold are   *)
(* named: "DQUOTE", "BACKTICK", "LDQUO", "RDQUO", "RSQUO", "MIDDOT".       *)
(***************************************************************************)
EXTENDS Integers, Sequences, FiniteSets, TLC

VARIABLES
    lines,          \* parser: the raw lines handed to parse_contents_lines
    documents,      \* parser: result with drop_duplicates=True
    documents_all,  \* parser: result with drop_duplicates=False
    vocabulary_,    \* TagEmbeddingModel.vocabulary_: tag -> index
    idf_,           \* TagEmbeddingModel.idf_: one weight per index
    fitted,         \* TagEmbeddingModel.fitted
    fitted_on,      \* history: <<the documents of the last successful fit>>
    embed_call,     \* the last call on the model, what it raised and returned
    build_call,     \* the call of build_similarity_matrix and what it raised
    matrix,         \* the SimilarityMatrix it returned
    top_call        \* the call of get_top_similar, what it raised and returned

parser_vars == <<lines, documents, documents_all>>

embedding_vars == <<vocabulary_, idf_, fitted, fitted_on, embed_call>>

similarity_vars == <<build_call, matrix, top_call>>

vars == <<lines, documents, documents_all,
          vocabulary_, idf_, fitted, fitted_on, embed_call,
          build_call, matrix, top_call>>

-----------------------------------------------------------------------------
(* Bounds *)

MaxLines == 2

\* Documents in one call of fit, transform or fit_transform.
MaxDocs == 2

\* Documents, and embeddings, in one call of build_similarity_matrix.
MaxLabels == 3

-----------------------------------------------------------------------------
(* Python str helpers *)

\* The absent value of an Optional[str]; no text equals it.
None == <<"None">>

\* Characters str.strip() and str.split() without arguments treat as blank.
Whitespace == {" ", "\t"}

\* The argument of the second strip() in _normalise_tag.
QuoteChars == {"'", "DQUOTE", "BACKTICK", " ", "LDQUO", "RDQUO", "RSQUO", "MIDDOT"}

Min(S) == CHOOSE x \in S : \A y \in S : x <= y

RECURSIVE LStrip(_, _)
LStrip(s, chars) ==
    IF s # <<>> /\ Head(s) \in chars THEN LStrip(Tail(s), chars) ELSE s

RECURSIVE RStrip(_, _)
RStrip(s, chars) ==
    IF s # <<>> /\ s[Len(s)] \in chars
    THEN RStrip(SubSeq(s, 1, Len(s) - 1), chars)
    ELSE s

\* str.strip(chars)
Strip(s, chars) == RStrip(LStrip(s, chars), chars)

\* str.find(c, from): 0-based position of the first c at or after from, or -1.
Find(s, c, from) ==
    LET hits == {i \in (from + 1)..Len(s) : s[i] = c}
    IN  IF hits = {} THEN -1 ELSE Min(hits) - 1

\* s[from:] with a 0-based from.
SliceFrom(s, from) == SubSeq(s, from + 1, Len(s))

\* str.split(sep) for a one-character sep: always at least one piece.
RECURSIVE Split(_, _)
Split(s, sep) ==
    LET i == Find(s, sep, 0)
    IN  IF i = -1
        THEN <<s>>
        ELSE <<SubSeq(s, 1, i)>> \o Split(SliceFrom(s, i + 1), sep)

\* str.split(): pieces between runs of whitespace, no empty piece.
RECURSIVE SplitWhitespace(_)
SplitWhitespace(s) ==
    LET t == LStrip(s, Whitespace)
        blanks == {i \in 1..Len(t) : t[i] \in Whitespace}
        n == IF blanks = {} THEN Len(t) + 1 ELSE Min(blanks)
    IN  IF t = <<>>
        THEN <<>>
        ELSE <<SubSeq(t, 1, n - 1)>> \o SplitWhitespace(SubSeq(t, n, Len(t)))

\* sep.join(parts)
RECURSIVE Join(_, _)
Join(parts, sep) ==
    IF parts = <<>> THEN <<>>
    ELSE IF Len(parts) = 1 THEN parts[1]
    ELSE parts[1] \o sep \o Join(Tail(parts), sep)

\* str.lower() on the characters that occur in the modelled lines.
LowerChar(c) == IF c = "C" THEN "c" ELSE IF c = "T" THEN "t" ELSE c

Lower(s) == [i \in 1..Len(s) |-> LowerChar(s[i])]

\* str.endswith(suffix)
EndsWith(s, suffix) ==
    /\ Len(s) >= Len(suffix)
    /\ SubSeq(s, Len(s) - Len(suffix) + 1, Len(s)) = suffix

\* str.startswith(c) for a one-character c
StartsWith(s, c) == s # <<>> /\ Head(s) = c

ContentsTxt == <<"c", "o", "n", "t", "e", "n", "t", "s", ".", "t", "x", "t">>

-----------------------------------------------------------------------------
(* semsi/data.py *)

TaggedDocument(identifier, tags, source) ==
    [identifier |-> identifier, tags |-> tags, source |-> source]

\* _extract_bracket_content looking for the first "]" of the whole line.
ExtractFirstClosing(line) ==
    LET start == Find(line, "[", 0)
        end == Find(line, "]", 0)
    IN  IF start = -1 \/ end = -1
        THEN None
        ELSE SubSeq(line, start + 2, end)

_extract_bracket_content(line) ==
    LET start == Find(line, "[", 0)
        end == Find(line, "]", start + 1)
    IN  IF start = -1 \/ end = -1
        THEN None
        ELSE SubSeq(line, start + 2, end)

_normalise_tag(token) ==
    LET cleaned == Strip(Strip(token, Whitespace), QuoteChars)
    IN  IF cleaned = <<>>
        THEN None
        ELSE Join(SplitWhitespace(cleaned), <<" ">>)

_build_identifier(tags, line) ==
    LET closing == Find(line, "]", 0)
        suffix_candidate ==
            IF closing # -1
            THEN Strip(SliceFrom(line, closing + 1), Whitespace)
            ELSE <<>>
        suffix ==
            IF closing # -1 /\ StartsWith(suffix_candidate, ".")
            THEN Tail(suffix_candidate)
            ELSE None
        base ==
            IF tags # <<>> THEN Join(tags, <<"_">>) ELSE Strip(line, Whitespace)
    IN  IF suffix # None /\ suffix # <<>>
        THEN base \o <<".">> \o suffix
        ELSE base

\* The inner loop of parse_contents_lines: the tokens that normalise to a
\* non-empty tag, in order.
RECURSIVE CollectTags(_)
CollectTags(tokens) ==
    IF tokens = <<>> THEN <<>>
    ELSE LET normalised == _normalise_tag(Head(tokens))
         IN  (IF normalised # None /\ normalised # <<>>
              THEN <<normalised>>
              ELSE <<>>) \o CollectTags(Tail(tokens))

\* One iteration of the loop of parse_contents_lines up to the construction
\* of the identifier: what the line is, and the document it would add.
ParseLine(raw_line) ==
    LET line == Strip(raw_line, Whitespace)
        bracket_content == _extract_bracket_content(line)
        tags == CollectTags(Split(bracket_content, ","))
    IN  IF line = <<>> THEN [kind |-> "blank"]
        ELSE IF bracket_content = None
        THEN IF EndsWith(Lower(line), ContentsTxt)
             THEN [kind |-> "self_listing"]
             ELSE [kind |-> "no_brackets"]
        ELSE IF tags = <<>> THEN [kind |-> "no_tags"]
        ELSE [kind |-> "document",
              doc |-> TaggedDocument(_build_identifier(tags, line), tags, line)]

-----------------------------------------------------------------------------
(* Input lines of the parser *)

Prefixes == { <<>>, <<" ">>, <<"]", ".">> }

Bodies ==
    { <<"'", "a", "'">>,
      <<"a", ",", "a">>,
      <<"b", ",", "a", "\t", "b">>,
      <<>>,
      <<"'", ",", " ", "BACKTICK">>,
      <<"'", "\t", "'", "a">> }

Suffixes == { <<>>, <<" ", ".", "t", " ">>, <<".">> }

Bracketed ==
    { p \o <<"[">> \o b \o <<"]">> \o s : p \in Prefixes, b \in Bodies, s \in Suffixes }

Unbracketed ==
    { <<>>,
      <<" ", "\t">>,
      <<"a">>,
      <<"[", "a">>,
      <<"a", "]">>,
      <<"]", "a", "[">>,
      <<"C", "o", "n", "t", "e", "n", "t", "s", ".", "t", "x", "t">> }

LineSet == Bracketed \cup Unbracketed

\* ParseLine of every input line, evaluated once.
ParsedLine == [l \in LineSet |-> ParseLine(l)]

\* ParseLoop that never records an emitted identifier.
RECURSIVE ParseLoopNoSeen(_, _)
ParseLoopNoSeen(ls, drop_duplicates) ==
    IF ls = <<>>
    THEN [documents |-> <<>>, seen_identifiers |-> {}]
    ELSE LET before == ParseLoopNoSeen(SubSeq(ls, 1, Len(ls) - 1), drop_duplicates)
             parsed == ParsedLine[ls[Len(ls)]]
         IN  IF parsed.kind # "document" THEN before
             ELSE IF drop_duplicates /\ parsed.doc.identifier \in before.seen_identifiers
             THEN before
             ELSE [documents |-> Append(before.documents, parsed.doc),
                   seen_identifiers |-> before.seen_identifiers]

\* The state of the loop of parse_contents_lines after the given lines.
RECURSIVE ParseLoop(_, _)
ParseLoop(ls, drop_duplicates) ==
    IF ls = <<>>
    THEN [documents |-> <<>>, seen_identifiers |-> {}]
    ELSE LET before == ParseLoop(SubSeq(ls, 1, Len(ls) - 1), drop_duplicates)
             parsed == ParsedLine[ls[Len(ls)]]
         IN  IF parsed.kind # "document" THEN before
             ELSE IF drop_duplicates /\ parsed.doc.identifier \in before.seen_identifiers
             THEN before
             ELSE [documents |-> Append(before.documents, parsed.doc),
                   seen_identifiers |->
                       IF drop_duplicates
                       THEN before.seen_identifiers \cup {parsed.doc.identifier}
                       ELSE before.seen_identifiers]

parse_contents_lines(ls, drop_duplicates) == ParseLoop(ls, drop_duplicates).documents

-----------------------------------------------------------------------------
(* Numbers: a float is modelled in fixed point, FloatOne units to 1.0 *)

FloatOne == 1000000

\* math.log of the whole numbers 1..8, in fixed point.
Ln == <<0, 693147, 1098612, 1386294, 1609438, 1791759, 1945910, 2079442>>

\* math.log(p / q) for whole numbers p, q
Log(p, q) == Ln[p] - Ln[q]

\* Python's order of str: by code point, a proper prefix first.
CodePoint(c) ==
    CASE c = "\t" -> 9
      [] c = " " -> 32
      [] c = "'" -> 39
      [] c = "a" -> 97
      [] c = "b" -> 98
      [] c = "c" -> 99

RECURSIVE StrLess(_, _)
StrLess(s, t) ==
    IF t = <<>> THEN FALSE
    ELSE IF s = <<>> THEN TRUE
    ELSE IF Head(s) # Head(t) THEN CodePoint(Head(s)) < CodePoint(Head(t))
    ELSE StrLess(Tail(s), Tail(t))

\* sorted(S) for a set of str
RECURSIVE Sorted(_)
Sorted(S) ==
    IF S = {} THEN <<>>
    ELSE LET least == CHOOSE x \in S : \A y \in S \ {x} : StrLess(x, y)
         IN  <<least>> \o Sorted(S \ {least})

\* set(seq)
Range(seq) == {seq[i] : i \in 1..Len(seq)}

\* Counter(seq)[x]
Count(seq, x) == Cardinality({i \in 1..Len(seq) : seq[i] = x})

-----------------------------------------------------------------------------
(* semsi/embedding.py *)

\* The fields of a TagEmbeddingModel after construction.
NewModel == [vocabulary_ |-> <<>>, idf_ |-> <<>>, fitted |-> FALSE]

\* The fields fit assigns from a non-empty document collection.
\* idf_ is a Python list: idf_[k] here is idf_[k - 1] there.
FitState(docs) ==
    LET doc_count == Len(docs)
        keys == UNION {Range(docs[i].tags) : i \in 1..Len(docs)}
        document_frequency ==
            [tag \in keys |->
                Cardinality({i \in 1..Len(docs) : tag \in Range(docs[i].tags)})]
        sorted_tags == Sorted(keys)
    IN  [vocabulary_ |->
            [tag \in keys |->
                (CHOOSE k \in 1..Len(sorted_tags) : sorted_tags[k] = tag) - 1],
         idf_ |-> [k \in 1..Len(sorted_tags) |->
                      Log(1 + doc_count, 1 + document_frequency[sorted_tags[k]])
                      + FloatOne],
         fitted |-> TRUE]

\* fit with the vocabulary in order of first appearance instead of sorted.
FitFirstSeen(self, docs) ==
    IF docs = <<>>
    THEN [self |-> self, raised |-> "ValueError"]
    ELSE
    LET all_tags == Join([i \in 1..Len(docs) |-> docs[i].tags], <<>>)
        keys == Range(all_tags)
        first(tag) == Min({i \in 1..Len(all_tags) : all_tags[i] = tag})
        position(tag) == Cardinality({u \in keys : first(u) < first(tag)})
        sorted == FitState(docs)
    IN  [self |->
            [vocabulary_ |-> [tag \in keys |-> position(tag)],
             idf_ |-> [k \in 1..Cardinality(keys) |->
                          LET tag == CHOOSE t \in keys : position(t) = k - 1
                          IN  sorted.idf_[sorted.vocabulary_[tag] + 1]],
             fitted |-> TRUE],
         raised |-> "none"]

\* fit that forgets to set the fitted flag.
FitNoFlag(self, docs) ==
    IF docs = <<>>
    THEN [self |-> self, raised |-> "ValueError"]
    ELSE [self |-> [FitState(docs) EXCEPT !.fitted = self.fitted], raised |-> "none"]

\* fit that clears the model before it looks at its input.
FitClearsFirst(self, docs) ==
    IF docs = <<>>
    THEN [self |-> NewModel, raised |-> "ValueError"]
    ELSE [self |-> FitState(docs), raised |-> "none"]

\* TagEmbeddingModel.fit: the model after the call and what the call raised.
fit(self, docs) ==
    IF docs = <<>>
    THEN [self |-> self, raised |-> "ValueError"]
    ELSE [self |-> FitState(docs), raised |-> "none"]

\* The vector transform builds for one document.
Vector(self, document) ==
    LET total == IF Len(document.tags) = 0 THEN 1 ELSE Len(document.tags)
        size == Cardinality(DOMAIN self.vocabulary_)
        hit(k) == {tag \in Range(document.tags) \cap DOMAIN self.vocabulary_ :
                       self.vocabulary_[tag] = k - 1}
    IN  [k \in 1..size |->
            IF hit(k) = {} THEN 0
            ELSE LET tag == CHOOSE t \in hit(k) : TRUE
                 IN  (Count(document.tags, tag) * self.idf_[k]) \div total]

\* transform that indexes the vocabulary with a tag it may not hold.
TransformStrict(self, docs) ==
    IF ~self.fitted
    THEN [raised |-> "RuntimeError", result |-> <<>>]
    ELSE IF \E i \in 1..Len(docs) : ~(Range(docs[i].tags) \subseteq DOMAIN self.vocabulary_)
    THEN [raised |-> "KeyError", result |-> <<>>]
    ELSE [raised |-> "none",
          result |-> [i \in 1..Len(docs) |-> Vector(self, docs[i])]]

\* TagEmbeddingModel.transform: what the call raised and returned.
transform(self, docs) ==
    IF ~self.fitted
    THEN [raised |-> "RuntimeError", result |-> <<>>]
    ELSE [raised |-> "none",
          result |-> [i \in 1..Len(docs) |-> Vector(self, docs[i])]]

\* TagEmbeddingModel.fit_transform
fit_transform(self, docs) ==
    LET fit_call == fit(self, docs)
        transform_call == transform(fit_call.self, docs)
    IN  IF fit_call.raised # "none"
        THEN [self |-> fit_call.self, raised |-> fit_call.raised, result |-> <<>>]
        ELSE [self |-> fit_call.self,
              raised |-> transform_call.raised,
              result |-> transform_call.result]

-----------------------------------------------------------------------------
(* Input documents of the embedding model *)

EmbeddingDocs ==
    { TaggedDocument(<<"e">>, <<>>, None),
      TaggedDocument(<<"x">>, << <<"b">>, <<"a">>, <<"b">> >>, None),
      TaggedDocument(<<"y">>, << <<"a", "b">> >>, None) }

\* The sequences of at most n elements of S.
SeqsUpTo(S, n) == UNION {[1..k -> S] : k \in 0..n}

EmbeddingInputs == SeqsUpTo(EmbeddingDocs, MaxDocs)

-----------------------------------------------------------------------------
(* semsi/similarity.py *)
(* The vectors hold whole numbers; a similarity is in fixed point, CosOne  *)
(* units to 1.0, and a norm in NormOne units to 1.0.                       *)

CosOne == 100

NormOne == 1000

\* sum(a * b for a, b in zip(vec_a, vec_b)): zip stops at the shorter one.
RECURSIVE Dot(_, _)
Dot(vec_a, vec_b) ==
    IF vec_a = <<>> \/ vec_b = <<>> THEN 0
    ELSE Head(vec_a) * Head(vec_b) + Dot(Tail(vec_a), Tail(vec_b))

\* math.sqrt of the whole numbers a sum of squares of the input vectors
\* takes, in fixed point.
Sqrt ==
    [n \in 0..8 |->
        CHOOSE r \in 0..(3 * NormOne) :
            r * r <= n * NormOne * NormOne /\ n * NormOne * NormOne < (r + 1) * (r + 1)]

\* _cosine_similarity dividing by the square of the first norm.
CosineByFirstNorm(vec_a, vec_b) ==
    LET dot == Dot(vec_a, vec_b)
        norm_a == Sqrt[Dot(vec_a, vec_a)]
        norm_b == Sqrt[Dot(vec_b, vec_b)]
    IN  IF norm_a = 0 \/ norm_b = 0
        THEN 0
        ELSE (dot * NormOne * NormOne * CosOne) \div (norm_a * norm_a)

_cosine_similarity(vec_a, vec_b) ==
    LET dot == Dot(vec_a, vec_b)
        norm_a == Sqrt[Dot(vec_a, vec_a)]
        norm_b == Sqrt[Dot(vec_b, vec_b)]
    IN  IF norm_a = 0 \/ norm_b = 0
        THEN 0
        ELSE (dot * NormOne * NormOne * CosOne) \div (norm_a * norm_b)

\* round(x, decimals) for decimals in 0..2: to the nearest multiple of the
\* step, a tie to the even one.
Round(x, decimals) ==
    LET step == IF decimals = 0 THEN CosOne ELSE IF decimals = 1 THEN CosOne \div 10 ELSE 1
        q == x \div step
        r == x % step
    IN  IF 2 * r > step \/ (2 * r = step /\ q % 2 = 1)
        THEN (q + 1) * step
        ELSE q * step

NoMatrix == [labels |-> <<>>, values |-> <<>>, built |-> FALSE]

SimilarityMatrix(labels, values) == [labels |-> labels, values |-> values, built |-> TRUE]

\* build_similarity_matrix; decimals is <<>> for None and <<d>> for d.
build_similarity_matrix(docs, embeddings, decimals) ==
    IF Len(docs) = 0
    THEN [raised |-> "ValueError", result |-> NoMatrix]
    ELSE
    LET labels == [i \in 1..Len(docs) |-> docs[i].identifier]
        cell(vec_a, vec_b) ==
            LET similarity == _cosine_similarity(vec_a, vec_b)
            IN  IF decimals # <<>> THEN Round(similarity, decimals[1]) ELSE similarity
        values ==
            [i \in 1..Len(embeddings) |->
                [j \in 1..Len(embeddings) |-> cell(embeddings[i], embeddings[j])]]
    IN  [raised |-> "none", result |-> SimilarityMatrix(labels, values)]

\* tuple.index(label), from 1: the first position that holds label.
Index(labels, label) == Min({i \in 1..Len(labels) : labels[i] = label})

\* list(zip(xs, ys))
Zip(xs, ys) ==
    [i \in 1..(IF Len(xs) <= Len(ys) THEN Len(xs) ELSE Len(ys)) |-> <<xs[i], ys[i]>>]

\* SimilarityMatrix.row
Row(similarity_matrix, label) ==
    LET index == Index(similarity_matrix.labels, label)
    IN  IF index > Len(similarity_matrix.values)
        THEN [raised |-> "IndexError", result |-> <<>>]
        ELSE [raised |-> "none",
              result |-> Zip(similarity_matrix.labels, similarity_matrix.values[index])]

\* scores.sort(key=score, reverse=True): stable, highest score first.
RECURSIVE SortByScore(_)
SortByScore(scores) ==
    IF scores = <<>> THEN <<>>
    ELSE LET best == Min({i \in 1..Len(scores) :
                             \A j \in 1..Len(scores) : scores[j][2] <= scores[i][2]})
         IN  <<scores[best]>>
             \o SortByScore(SubSeq(scores, 1, best - 1) \o SubSeq(scores, best + 1, Len(scores)))

\* s[:n]
SliceTo(s, n) ==
    IF n >= 0
    THEN SubSeq(s, 1, IF n <= Len(s) THEN n ELSE Len(s))
    ELSE SubSeq(s, 1, IF Len(s) + n >= 0 THEN Len(s) + n ELSE 0)

get_top_similar(similarity_matrix, target, top_n, include_self) ==
    IF \A i \in 1..Len(similarity_matrix.labels) : similarity_matrix.labels[i] # target
    THEN [raised |-> "KeyError", result |-> <<>>]
    ELSE
    LET row == Row(similarity_matrix, target)
        scores ==
            IF include_self
            THEN row.result
            ELSE SelectSeq(row.result, LAMBDA item : item[1] # target)
    IN  IF row.raised # "none"
        THEN [raised |-> row.raised, result |-> <<>>]
        ELSE [raised |-> "none", result |-> SliceTo(SortByScore(scores), top_n)]

-----------------------------------------------------------------------------
(* Inputs of the similarity engine *)

SimilarityDocs ==
    { TaggedDocument(<<"x">>, << <<"a">> >>, None),
      TaggedDocument(<<"y">>, << <<"b">> >>, None) }

Vectors == { <<0, 0>>, <<1, 0>>, <<1, 2>> }

DecimalsChoices == { <<>>, <<1>> }

Targets == { <<"x">>, <<"y">>, <<"z">> }

TopNs == (-1)..(MaxLabels + 1)

-----------------------------------------------------------------------------
(* Parser specification: the caller supplies one more line, and the parser *)
(* is applied to the lines so far with and without duplicate dropping.     *)

InitParser ==
    /\ lines = <<>>
    /\ documents = <<>>
    /\ documents_all = <<>>

Parse(raw_line) ==
    /\ Len(lines) < MaxLines
    /\ lines' = Append(lines, raw_line)
    /\ documents' = parse_contents_lines(lines', TRUE)
    /\ documents_all' = parse_contents_lines(lines', FALSE)

NextParser == \E raw_line \in LineSet : Parse(raw_line)

-----------------------------------------------------------------------------
(* Embedding model: any sequence of fit, transform and fit_transform calls *)
(* on one TagEmbeddingModel.                                               *)

NoCall == [op |-> "none", documents |-> <<>>, raised |-> "none", result |-> <<>>]

Self == [vocabulary_ |-> vocabulary_, idf_ |-> idf_, fitted |-> fitted]

InitEmbedding ==
    /\ vocabulary_ = NewModel.vocabulary_
    /\ idf_ = NewModel.idf_
    /\ fitted = NewModel.fitted
    /\ fitted_on = <<>>
    /\ embed_call = NoCall

Fit(docs) ==
    \E call \in {fit(Self, docs)} :
        /\ vocabulary_' = call.self.vocabulary_
        /\ idf_' = call.self.idf_
        /\ fitted' = call.self.fitted
        /\ fitted_on' = IF call.raised = "none" THEN <<docs>> ELSE fitted_on
        /\ embed_call' = [op |-> "fit", documents |-> docs,
                          raised |-> call.raised, result |-> <<>>]

Transform(docs) ==
    \E call \in {transform(Self, docs)} :
        /\ embed_call' = [op |-> "transform", documents |-> docs,
                          raised |-> call.raised, result |-> call.result]
        /\ UNCHANGED <<vocabulary_, idf_, fitted, fitted_on>>

FitTransform(docs) ==
    \E call \in {fit_transform(Self, docs)} :
        /\ vocabulary_' = call.self.vocabulary_
        /\ idf_' = call.self.idf_
        /\ fitted' = call.self.fitted
        /\ fitted_on' = IF docs # <<>> THEN <<docs>> ELSE fitted_on
        /\ embed_call' = [op |-> "fit_transform", documents |-> docs,
                          raised |-> call.raised, result |-> call.result]

NextEmbedding ==
    \E docs \in EmbeddingInputs :
        \/ Fit(docs)
        \/ Transform(docs)
        \/ FitTransform(docs)

-----------------------------------------------------------------------------
(* Similarity engine: one matrix is built from the caller's documents and  *)
(* embeddings, and one query is made on it.                                *)

NoBuild == [documents |-> <<>>, embeddings |-> <<>>, decimals |-> <<>>, raised |-> "idle"]

NoTop == [target |-> <<>>, top_n |-> 0, include_self |-> FALSE,
          raised |-> "idle", result |-> <<>>]

InitSimilarity ==
    /\ build_call = NoBuild
    /\ matrix = NoMatrix
    /\ top_call = NoTop

Build ==
    /\ build_call = NoBuild
    /\ \E docs \in SeqsUpTo(SimilarityDocs, MaxLabels),
          embeddings \in SeqsUpTo(Vectors, MaxLabels),
          decimals \in DecimalsChoices :
        \E call \in {build_similarity_matrix(docs, embeddings, decimals)} :
            /\ build_call' = [documents |-> docs, embeddings |-> embeddings,
                              decimals |-> decimals, raised |-> call.raised]
            /\ matrix' = call.result
    /\ UNCHANGED top_call

TopSimilar ==
    /\ matrix.built
    /\ top_call = NoTop
    /\ \E target \in Targets, top_n \in TopNs, include_self \in BOOLEAN :
        \E call \in {get_top_similar(matrix, target, top_n, include_self)} :
            top_call' = [target |-> target, top_n |-> top_n,
                         include_self |-> include_self,
                         raised |-> call.raised, result |-> call.result]
    /\ UNCHANGED <<build_call, matrix>>

NextSimilarity == Build \/ TopSimilar

-----------------------------------------------------------------------------
(* The parser, the embedding model and the similarity engine share no      *)
(* state: a behaviour exercises one of them from the initial state and     *)
(* leaves the other two idle.                                              *)

ParserIdle == lines = <<>>

EmbeddingIdle == embed_call = NoCall

SimilarityIdle == build_call = NoBuild

Init == InitParser /\ InitEmbedding /\ InitSimilarity

Next ==
    \/ /\ EmbeddingIdle /\ SimilarityIdle
       /\ NextParser
       /\ UNCHANGED <<embedding_vars, similarity_vars>>
    \/ /\ ParserIdle /\ SimilarityIdle
       /\ NextEmbedding
       /\ UNCHANGED <<parser_vars, similarity_vars>>
    \/ /\ ParserIdle /\ EmbeddingIdle
       /\ NextSimilarity
       /\ UNCHANGED <<parser_vars, embedding_vars>>

Spec == Init /\ [][Next]_vars

-----------------------------------------------------------------------------
(* Parser properties *)

\* The documents of ds whose identifier no earlier document of ds has.
KeepFirst(ds) ==
    LET first(i) == \A j \in 1..(i - 1) : ds[j].identifier # ds[i].identifier
        F[i \in 0..Len(ds)] ==
            IF i = 0 THEN <<>>
            ELSE IF first(i) THEN Append(F[i - 1], ds[i]) ELSE F[i - 1]
    IN  F[Len(ds)]

\* C1: with drop_duplicates=True the identifiers of the result are pairwise
\* distinct and the result is the drop_duplicates=False result restricted to
\* the first document of each identifier; with drop_duplicates=False every
\* line that yields a tag emits a document, exact duplicates included.
C1_Dedup ==
    /\ \A i, j \in 1..Len(documents) :
           i # j => documents[i].identifier # documents[j].identifier
    /\ documents = KeepFirst(documents_all)
    /\ Len(documents_all) =
           Cardinality({i \in 1..Len(lines) : ParsedLine[lines[i]].kind = "document"})

\* Two lines with one identifier were parsed (different lines, or the same
\* line twice): both are kept without dropping, one with it.
C1_Witness ==
    /\ Len(documents_all) = 2
    /\ documents_all[1].identifier = documents_all[2].identifier
    /\ documents_all[1].source # documents_all[2].source
    /\ Len(documents) = 1

\* The trimmed line has a "[" and a "]" after it, and a token between the
\* first "[" and the first "]" after it normalises to a non-empty tag.
Emits(raw_line) ==
    LET t == Strip(raw_line, Whitespace)
        opens == {i \in 1..Len(t) : t[i] = "["}
        closes == {j \in 1..Len(t) : t[j] = "]" /\ \E i \in opens : i < j}
    IN  /\ closes # {}
        /\ LET i0 == Min(opens)
               j0 == Min({j \in closes : j > i0})
               tokens == Split(SubSeq(t, i0 + 1, j0 - 1), ",")
           IN  \E k \in 1..Len(tokens) :
                   _normalise_tag(tokens[k]) \notin {None, <<>>}

\* C2: with drop_duplicates=False the parser emits one document for exactly
\* the lines that have a bracketed list with a surviving tag, in line order,
\* and skips every other line; nothing parsed gives the empty sequence.
C2_EmitsExactly ==
    LET emitting == SelectSeq(lines, Emits)
    IN  /\ Len(documents_all) = Len(emitting)
        /\ \A k \in 1..Len(emitting) :
               documents_all[k].source = Strip(emitting[k], Whitespace)

\* A skipped line followed by an emitting line, of which the first "]" is
\* not the one closing the tag list.
C2_Witness ==
    /\ Len(lines) = 2
    /\ ~Emits(lines[1])
    /\ Emits(lines[2])
    /\ Head(lines[2]) = "]"
    /\ Len(documents_all) = 1

\* The identifier C3 describes: the tags joined with "_", plus "." and the
\* rest when the trimmed text after the bracket closing the tag list starts
\* with ".".
ClaimedIdentifier(tags, line) ==
    LET i0 == Find(line, "[", 0)
        j0 == Find(line, "]", i0 + 1)
        rest == Strip(SliceFrom(line, j0 + 1), Whitespace)
    IN  IF StartsWith(rest, ".")
        THEN Join(tags, <<"_">>) \o <<".">> \o Tail(rest)
        ELSE Join(tags, <<"_">>)

\* The trimmed text after the bracket that closed the tag list of line.
AfterTagList(line) ==
    LET i0 == Find(line, "[", 0)
        j0 == Find(line, "]", i0 + 1)
    IN  Strip(SliceFrom(line, j0 + 1), Whitespace)

\* C3: the identifier of every emitted document is the underscore-joined
\* tags, followed by "." and the remainder exactly when the trimmed text
\* after the bracket that closed the tag list starts with "." (stated for
\* the lines where that text is not a lone ".", whose empty remainder is a
\* case of its own).
C3_Identifier ==
    \A k \in 1..Len(documents_all) :
        AfterTagList(documents_all[k].source) # <<".">> =>
            documents_all[k].identifier =
                ClaimedIdentifier(documents_all[k].tags, documents_all[k].source)

-----------------------------------------------------------------------------
(* Embedding model properties *)

\* C4: transform fails with the state error exactly when no fit on the
\* model has succeeded before it; the model is fit exactly from its first
\* successful fit on, and no other call fails with the state error.
C4_FitBeforeTransform ==
    /\ fitted <=> fitted_on # <<>>
    /\ embed_call.op = "transform" =>
           (embed_call.raised = "RuntimeError" <=> fitted_on = <<>>)
    /\ embed_call.raised = "RuntimeError" => embed_call.op = "transform"

\* transform returned vectors on a model that an earlier call had fitted.
C4_Witness ==
    /\ embed_call.op = "transform"
    /\ embed_call.raised = "none"
    /\ embed_call.documents # <<>>
    /\ fitted_on # <<>>

\* C5: fit (alone or inside fit_transform) over zero documents fails with
\* the input error, and a call that fails with it leaves vocabulary_, idf_
\* and fitted as they were, on an unfit and on a fitted model;
\* build_similarity_matrix over zero documents fails with the input error
\* and returns no matrix.
C5_EmptyFitGuard ==
    [][ /\ (embed_call'.op \in {"fit", "fit_transform"} /\ embed_call'.documents = <<>>)
            => embed_call'.raised = "ValueError"
        /\ embed_call'.raised = "ValueError"
            => UNCHANGED <<vocabulary_, idf_, fitted>>
        /\ (build_call' # NoBuild /\ build_call'.documents = <<>>)
            => (build_call'.raised = "ValueError" /\ matrix' = NoMatrix)
      ]_vars

\* fit over zero documents failed on a model that was fitted with a
\* non-empty vocabulary, which it still has.
C5_Witness ==
    /\ embed_call.op = "fit"
    /\ embed_call.raised = "ValueError"
    /\ fitted
    /\ DOMAIN vocabulary_ # {}

\* The number of documents of docs that hold tag at least once.
DocFrequency(docs, tag) ==
    Cardinality({i \in 1..Len(docs) : \E k \in 1..Len(docs[i].tags) : docs[i].tags[k] = tag})

\* docs in the order given by the permutation p of its positions.
Permuted(docs, p) == [i \in 1..Len(docs) |-> docs[p[i]]]

\* C6: after a successful fit the vocabulary maps the distinct tags of the
\* fit documents onto 0..n-1 in sorted order, idf_ has one entry per index,
\* computed from N and the document frequency of its tag (between 1 and N),
\* and fitting any permutation of the documents gives the same vocabulary
\* and IDF table.
C6_VocabularyDeterminism ==
    fitted_on # <<>> =>
        LET docs == fitted_on[1]
            N == Len(docs)
            n == Cardinality(DOMAIN vocabulary_)
        IN  /\ DOMAIN vocabulary_ =
                   {t \in {<<"a">>, <<"b">>, <<"a", "b">>} :
                       \E i \in 1..N : \E k \in 1..Len(docs[i].tags) : docs[i].tags[k] = t}
            /\ {vocabulary_[t] : t \in DOMAIN vocabulary_} = 0..(n - 1)
            /\ \A t, u \in DOMAIN vocabulary_ :
                   StrLess(t, u) <=> vocabulary_[t] < vocabulary_[u]
            /\ Len(idf_) = n
            /\ \A t \in DOMAIN vocabulary_ :
                   /\ DocFrequency(docs, t) \in 1..N
                   /\ idf_[vocabulary_[t] + 1] =
                          Ln[1 + N] - Ln[1 + DocFrequency(docs, t)] + FloatOne
            /\ \A p \in Permutations(1..N) :
                   /\ fit(NewModel, Permuted(docs, p)).self.vocabulary_ = vocabulary_
                   /\ fit(NewModel, Permuted(docs, p)).self.idf_ = idf_

\* The model was fitted on two different documents, one with a repeated tag
\* and its tags not in sorted order, giving three vocabulary entries.
C6_Witness ==
    /\ fitted_on # <<>>
    /\ Len(fitted_on[1]) = 2
    /\ fitted_on[1][1] # fitted_on[1][2]
    /\ Cardinality(DOMAIN vocabulary_) = 3
    /\ \E i \in 1..2 : Len(fitted_on[1][i].tags) = 3

\* C7: on a fitted model transform of any documents does not fail and
\* returns one vector per document, in order, with one entry per vocabulary
\* tag of the fit, positive at the tags that occur in the document and zero
\* at the others (so all zero for a document with no known tag).
C7_TransformVectors ==
    (embed_call.op = "transform" /\ fitted_on # <<>>) =>
        LET docs == embed_call.documents
            vocabulary == UNION {Range(fitted_on[1][i].tags) : i \in 1..Len(fitted_on[1])}
        IN  /\ embed_call.raised = "none"
            /\ Len(embed_call.result) = Len(docs)
            /\ \A i \in 1..Len(docs) :
                   /\ Len(embed_call.result[i]) = Cardinality(vocabulary)
                   /\ \A t \in vocabulary :
                          IF \E k \in 1..Len(docs[i].tags) : docs[i].tags[k] = t
                          THEN embed_call.result[i][vocabulary_[t] + 1] > 0
                          ELSE embed_call.result[i][vocabulary_[t] + 1] = 0

\* transform of documents other than the fit set: one with tags that were
\* all unseen at fit and one with no tags, both giving an all-zero vector of
\* the vocabulary's size, and one with a known tag.
C7_Witness ==
    /\ embed_call.op = "transform"
    /\ embed_call.raised = "none"
    /\ DOMAIN vocabulary_ # {}
    /\ Len(embed_call.documents) = 2
    /\ embed_call.documents[1].tags # <<>>
    /\ embed_call.documents[2].tags = <<>>
    /\ \A i \in 1..2 : \A k \in 1..Len(embed_call.result[i]) : embed_call.result[i][k] = 0

-----------------------------------------------------------------------------
(* Similarity engine properties *)

\* C8: every matrix build_similarity_matrix returns has the identifiers of
\* the documents, in order, as labels, and values that are square with side
\* len(labels), whatever the lengths of documents and embeddings.
C8_SquareMatrix ==
    matrix.built =>
        /\ matrix.labels =
               [i \in 1..Len(build_call.documents) |-> build_call.documents[i].identifier]
        /\ Len(matrix.values) = Len(matrix.labels)
        /\ \A i \in 1..Len(matrix.values) : Len(matrix.values[i]) = Len(matrix.labels)

\* The vector has zero norm.
ZeroNorm(vec) == \A k \in 1..Len(vec) : vec[k] = 0

\* C9: a matrix built from equal-length vectors, rounded or not, is
\* symmetric, and a cell is 0.0 whenever one of its two vectors has zero
\* norm, the diagonal cell of an all-zero vector included.
C9_SymmetricZeroNorm ==
    matrix.built =>
        \A i, j \in 1..Len(build_call.embeddings) :
            /\ matrix.values[i][j] = matrix.values[j][i]
            /\ (ZeroNorm(build_call.embeddings[i]) \/ ZeroNorm(build_call.embeddings[j]))
                   => matrix.values[i][j] = 0

\* A rounded matrix over an all-zero vector and a vector of another norm
\* that is neither parallel nor orthogonal to a third.
C9_Witness ==
    /\ matrix.built
    /\ build_call.decimals # <<>>
    /\ \E i, j \in 1..Len(build_call.embeddings) :
           /\ ZeroNorm(build_call.embeddings[i])
           /\ matrix.values[i][i] = 0
           /\ matrix.values[j][j] = CosOne
    /\ \E i, j \in 1..Len(build_call.embeddings) :
           /\ matrix.values[i][j] > 0
           /\ matrix.values[i][j] < CosOne
           /\ Dot(build_call.embeddings[i], build_call.embeddings[i])
                  # Dot(build_call.embeddings[j], build_call.embeddings[j])

\* C10: on a matrix with one row and one column per label, get_top_similar
\* fails with the lookup error exactly when target is not a label;
\* otherwise, with top_n at least the number of labels, it returns a pair
\* for every position but the target's own without include_self, and a
\* pair for every position with include_self, duplicate labels included.
C10_TopSimilarPairs ==
    (top_call # NoTop /\ Len(build_call.embeddings) = Len(build_call.documents)) =>
        LET n == Len(matrix.labels)
            own == Min({i \in 1..n : matrix.labels[i] = top_call.target})
            others == SubSeq(Zip(matrix.labels, matrix.values[own]), 1, own - 1)
                      \o SubSeq(Zip(matrix.labels, matrix.values[own]), own + 1, n)
            same_pairs(got, want) ==
                /\ Len(got) = Len(want)
                /\ \A pair \in Range(want) : Count(got, pair) = Count(want, pair)
        IN  /\ top_call.raised = "KeyError"
                <=> (\A i \in 1..n : matrix.labels[i] # top_call.target)
            /\ (top_call.raised # "KeyError" /\ top_call.top_n >= n) =>
                   /\ top_call.raised = "none"
                   /\ IF top_call.include_self
                      THEN same_pairs(top_call.result,
                                      Zip(matrix.labels, matrix.values[own]))
                      ELSE same_pairs(top_call.result, others)

\* The pairs get_top_similar chooses from: the target's row, without the
\* pairs carrying the target's label unless include_self is set.
Eligible ==
    LET own == Min({i \in 1..Len(matrix.labels) : matrix.labels[i] = top_call.target})
        row == Zip(matrix.labels, matrix.values[own])
    IN  IF top_call.include_self THEN row
        ELSE SelectSeq(row, LAMBDA item : item[1] # top_call.target)

\* result takes its pairs from distinct positions of eligible, highest score
\* first, pairs of equal score in the order of their positions, and no
\* position left out scores strictly higher than one taken.
TopOrdered(result, eligible) ==
    \E f \in [1..Len(result) -> 1..Len(eligible)] :
        /\ \A k, l \in 1..Len(result) :
               k < l => /\ f[k] # f[l]
                        /\ result[k][2] >= result[l][2]
                        /\ result[k][2] = result[l][2] => f[k] < f[l]
        /\ \A k \in 1..Len(result) : result[k] = eligible[f[k]]
        /\ \A p \in 1..Len(eligible) :
               (\A k \in 1..Len(result) : f[k] # p) =>
                   \A k \in 1..Len(result) : eligible[p][2] <= result[k][2]

\* C11: on a matrix with one row and one column per label, for every target
\* among the labels and every integer top_n, get_top_similar returns at most
\* top_n pairs, exactly min(top_n, number of eligible entries) of them, with
\* scores in non-increasing order, pairs of equal score in the matrix's
\* label order, and no eligible entry left out scoring strictly higher than
\* one returned.
C11_TopN ==
    (/\ top_call # NoTop
     /\ Len(build_call.embeddings) = Len(build_call.documents)
     /\ \E i \in 1..Len(matrix.labels) : matrix.labels[i] = top_call.target) =>
        /\ top_call.raised = "none"
        /\ Len(top_call.result) <= top_call.top_n
        /\ Len(top_call.result) = Min({top_call.top_n, Len(Eligible)})
        /\ TopOrdered(top_call.result, Eligible)

\* The quote-like characters: straight and curly single and double quotes,
\* backtick and middle-dot.
QuoteLike == {"'", "DQUOTE", "BACKTICK", "LSQUO", "RSQUO", "LDQUO", "RDQUO", "MIDDOT"}

FullyNormalised(tag) ==
    /\ tag # <<>>
    /\ tag[1] \notin Whitespace \cup QuoteLike
    /\ tag[Len(tag)] \notin Whitespace \cup QuoteLike
    /\ \A i \in 1..Len(tag) : tag[i] \in Whitespace => tag[i] = " "
    /\ \A i \in 1..(Len(tag) - 1) : ~(tag[i] = " " /\ tag[i + 1] = " ")

\* C12: every tag of every document emitted by parse_contents_lines is
\* non-empty, has no leading or trailing whitespace or quote-like character
\* and no whitespace other than single spaces between words, and is left
\* unchanged by a second normalisation.
C12_NormalisedTags ==
    \A i \in 1..Len(documents_all) :
        \A j \in 1..Len(documents_all[i].tags) :
            /\ FullyNormalised(documents_all[i].tags[j])
            /\ _normalise_tag(documents_all[i].tags[j]) = documents_all[i].tags[j]

====
